---- MODULE Spec2Model ----
(***************************************************************************)
(* Model of addmachines-new.py: bulk registration and deployment of MAAS   *)
(* machines from a CSV inventory.  The main thread runs                    *)
(* add_machines_from_csv; the worker threads of two ThreadPoolExecutors    *)
(* run create_machine (phase 1) and configure_and_deploy (phase 2), one    *)
(* task per inventory row.  Every invocation of the external `maas`        *)
(* command is one atomic step whose outcome the control plane chooses.     *)
(***************************************************************************)
EXTENDS Integers, Sequences, FiniteSets, TLC

\* ---------------------------------------------------------------- bounds
MaxRows == 2          \* inventory rows of a batch run (Spec)
MaxTimeout == 3       \* largest timeout handed to wait_for_status (SpecWait)
MaxInterval == 2      \* largest interval handed to wait_for_status (SpecWait)
PoolExtra == 1        \* rows beyond the pool width in a pool run (SpecPool)

\* ------------------------------------------------------- program values
NoneVal == "<None>"                       \* Python's None
WaitKinds == {"Ready", "Deployed"}        \* the expected_status arguments, lines 88 and 94

\* What the control plane can answer to `maas machines create` (line 54):
\* a non-zero exit, or exit 0 with a JSON object holding a system_id, holding
\* an empty system_id, holding no system_id, or with output that is no JSON object.
CreateResponses == {"exit1", "ok", "empty_system_id", "no_system_id", "malformed"}

\* What it can answer to `maas machine read` (line 10): a non-zero exit, or
\* exit 0 with a JSON object holding a status_name, holding none, or with
\* output that is no JSON object.
ReadResponses == {"exit1", "malformed", "no_status_name", "Ready", "Deployed", "Commissioning"}

\* The cloud_init_file argument: absent, empty, or a path.
CloudInitFiles == {NoneVal, "", "user-data.yaml"}

VARIABLES
    nrows,            \* len(rows), line 104
    header_ok,        \* whether the CSV header names every column lines 29-41 read
    cloud_init_file,  \* argument of add_machines_from_csv
    timeout,          \* argument of wait_for_status, line 16
    interval,         \* argument of wait_for_status, line 16
    create_response,  \* the control plane's answer to each row's create request
    mainpc,           \* position of the main thread in add_machines_from_csv
    collected,        \* number of futures whose result() line 108 has taken
    results,          \* the list built at line 108
    task1,            \* per row: the create_machine task of the first pool
    task2             \* per row: the configure_and_deploy task of the second pool

vars == <<nrows, header_ok, cloud_init_file, timeout, interval, create_response,
          mainpc, collected, results, task1, task2>>

inputs == <<nrows, header_ok, cloud_init_file, timeout, interval, create_response>>

Rows == 1..nrows

\* The system id the control plane assigns to row m's machine.
SystemIdOf(m) == "sid-" \o ToString(m)

\* The power credentials of row m (power_user, power_pass, power_address).
CredentialsOf(m) == "ipmi-" \o ToString(m)

\* ------------------------------------------------------------ phase 1 task
\* pc: "unsubmitted" | "queued" | "running" (dequeued by a worker, command
\* built) | "done".  ret: the returned tuple (hostname, system id, power
\* credentials; the three credential fields travel together).  raised: the task ended with
\* an exception (the KeyError of lines 29-41).  The rest is observation:
\* creates counts the create commands issued, said_added and said_error
\* record the two console lines of lines 55 and 59.
Task1Init ==
    [pc |-> "unsubmitted", ret |-> <<>>, raised |-> FALSE,
     creates |-> 0, said_added |-> FALSE, said_error |-> FALSE]

\* ------------------------------------------------------------ phase 2 task
\* pc: "unsubmitted" | "queued" | "entry" (dequeued, at line 84) |
\* "get_machine_status" (line 19) | "sleep" (line 23) | "apply_cloud_init"
\* (line 90) | "deploy_machine" (line 92) | "done".
\* hostname, system_id: the task's arguments.  expected_status,
\* elapsed_time, status: the locals of wait_for_status.
\* Observation, per wait: queries (status reads issued), sleeps, hit (the
\* number of the first read the control plane answered with the expected
\* status, 0 if none), returned (what wait_for_status returned); late (a
\* read was issued with elapsed_time >= timeout); pushes (calls of
\* apply_cloud_init), updates (update commands issued), deploys (deploy
\* commands issued), push_failed, deploy_failed; outcome (the console line
\* that ends the task, or "Raised" when an exception ended it).
NoWait == [k \in WaitKinds |-> 0]

Task2Init ==
    [pc |-> "unsubmitted", hostname |-> 0, system_id |-> NoneVal,
     expected_status |-> NoneVal, elapsed_time |-> 0, status |-> NoneVal,
     queries |-> NoWait, sleeps |-> NoWait, hit |-> NoWait,
     returned |-> [k \in WaitKinds |-> "none"], late |-> FALSE,
     pushes |-> 0, updates |-> 0, deploys |-> 0, push_failed |-> FALSE, deploy_failed |-> FALSE,
     outcome |-> "none"]

\* ------------------------------------------------------------------- Init
\* The state after argument parsing and the CSV read (lines 102-104), for
\* rows drawn from ns, timeouts from ts, intervals from is, and create
\* answers among which at most maxok are not a plain failure.
InitWith(ns, ts, is, maxok) ==
    /\ nrows \in ns
    /\ header_ok \in BOOLEAN
    /\ cloud_init_file \in CloudInitFiles
    /\ timeout \in ts
    /\ interval \in is
    /\ create_response \in [1..nrows -> CreateResponses]
    /\ Cardinality({m \in 1..nrows : create_response[m] # "exit1"}) <= maxok
    /\ mainpc = "submit_creates"
    /\ collected = 0
    /\ results = <<>>
    /\ task1 = [m \in 1..nrows |-> Task1Init]
    /\ task2 = [m \in 1..nrows |-> Task2Init]

\* ------------------------------------------------------------ worker pools
\* ThreadPoolExecutor(max_workers=5), lines 106 and 110.
MaxWorkers == 5

WorkerFree_Unbounded(executing) == TRUE

WorkerFree_Serial(executing) == executing < 1

\* A worker thread is free to take the next work item while fewer than
\* max_workers tasks are executing.
WorkerFree(executing) == executing < MaxWorkers

\* The tasks a pool's workers are executing.
Executing(tasks) == {m \in DOMAIN tasks : tasks[m].pc \notin {"unsubmitted", "queued", "done"}}

\* Work items leave the pool's queue in submission order.
NextQueued(tasks, m) ==
    /\ tasks[m].pc = "queued"
    /\ \A k \in DOMAIN tasks : k < m => tasks[k].pc # "queued"

\* ------------------------------------------------------------ create_machine
CreateResult_Uncaught(m, resp) ==
    CASE resp = "ok" ->
           [ret |-> <<m, SystemIdOf(m), CredentialsOf(m)>>, said_added |-> TRUE,
            said_error |-> FALSE, raises |-> FALSE]
      [] resp = "empty_system_id" ->
           [ret |-> <<m, "", CredentialsOf(m)>>, said_added |-> TRUE,
            said_error |-> FALSE, raises |-> FALSE]
      [] resp = "no_system_id" ->
           [ret |-> <<m, NoneVal, CredentialsOf(m)>>, said_added |-> TRUE,
            said_error |-> FALSE, raises |-> FALSE]
      [] resp = "malformed" ->
           [ret |-> <<>>, said_added |-> TRUE, said_error |-> FALSE, raises |-> TRUE]
      [] OTHER ->
           [ret |-> <<>>, said_added |-> FALSE, said_error |-> FALSE, raises |-> TRUE]

CreateResult_SharedId(m, resp) ==
    CASE resp = "ok" ->
           [ret |-> <<m, SystemIdOf(1), CredentialsOf(m)>>, said_added |-> TRUE,
            said_error |-> FALSE, raises |-> FALSE]
      [] resp = "empty_system_id" ->
           [ret |-> <<m, "", CredentialsOf(m)>>, said_added |-> TRUE,
            said_error |-> FALSE, raises |-> FALSE]
      [] resp = "no_system_id" ->
           [ret |-> <<m, NoneVal, CredentialsOf(m)>>, said_added |-> TRUE,
            said_error |-> FALSE, raises |-> FALSE]
      [] resp = "malformed" ->
           [ret |-> <<m, NoneVal, NoneVal>>, said_added |-> TRUE,
            said_error |-> TRUE, raises |-> FALSE]
      [] OTHER ->
           [ret |-> <<m, NoneVal, NoneVal>>, said_added |-> FALSE,
            said_error |-> TRUE, raises |-> FALSE]

\* What create_machine returns and prints for row m when the create command
\* answers resp (lines 53-60).  "exit1" raises in subprocess.run; "malformed"
\* raises in json.loads or .get, after line 55 has printed.  Both are caught
\* at line 58, so no exception leaves create_machine here (raises is FALSE).
CreateResult(m, resp) ==
    CASE resp = "ok" ->
           [ret |-> <<m, SystemIdOf(m), CredentialsOf(m)>>, said_added |-> TRUE,
            said_error |-> FALSE, raises |-> FALSE]
      [] resp = "empty_system_id" ->
           [ret |-> <<m, "", CredentialsOf(m)>>, said_added |-> TRUE,
            said_error |-> FALSE, raises |-> FALSE]
      [] resp = "no_system_id" ->
           [ret |-> <<m, NoneVal, CredentialsOf(m)>>, said_added |-> TRUE,
            said_error |-> FALSE, raises |-> FALSE]
      [] resp = "malformed" ->
           [ret |-> <<m, NoneVal, NoneVal>>, said_added |-> TRUE,
            said_error |-> TRUE, raises |-> FALSE]
      [] OTHER ->
           [ret |-> <<m, NoneVal, NoneVal>>, said_added |-> FALSE,
            said_error |-> TRUE, raises |-> FALSE]

\* A worker of the first pool takes row m's task and builds the command
\* (lines 29-51); a column missing from the CSV header raises KeyError
\* outside the try block, which ends the task with that exception.
StartCreate(m) ==
    /\ NextQueued(task1, m)
    /\ WorkerFree(Cardinality(Executing(task1)))
    /\ task1' = [task1 EXCEPT ![m] =
                    IF header_ok THEN [@ EXCEPT !.pc = "running"]
                    ELSE [@ EXCEPT !.pc = "done", !.raised = TRUE]]
    /\ UNCHANGED <<inputs, mainpc, collected, results, task2>>

RunCreate_Retry(m) ==
    /\ task1[m].pc = "running"
    /\ LET r == CreateResult(m, create_response[m]) IN
       task1' = [task1 EXCEPT ![m] =
                    [@ EXCEPT !.pc = IF r.said_error THEN "running" ELSE "done",
                              !.ret = r.ret, !.raised = r.raises,
                              !.creates = @ + 1,
                              !.said_added = r.said_added, !.said_error = r.said_error]]
    /\ UNCHANGED <<inputs, mainpc, collected, results, task2>>

\* The create command runs and create_machine returns (lines 53-60).
RunCreate(m) ==
    /\ task1[m].pc = "running"
    /\ LET r == CreateResult(m, create_response[m]) IN
       task1' = [task1 EXCEPT ![m] =
                    [@ EXCEPT !.pc = "done", !.ret = r.ret, !.raised = r.raises,
                              !.creates = @ + 1,
                              !.said_added = r.said_added, !.said_error = r.said_error]]
    /\ UNCHANGED <<inputs, mainpc, collected, results, task2>>

\* ------------------------------------------------------ add_machines_from_csv
\* Line 107: one create_machine task per row is submitted to the first pool.
SubmitCreates ==
    /\ mainpc = "submit_creates"
    /\ task1' = [m \in Rows |-> [task1[m] EXCEPT !.pc = "queued"]]
    /\ mainpc' = IF nrows = 0 THEN "submit_configure" ELSE "collect"
    /\ UNCHANGED <<inputs, collected, results, task2>>

\* future.result() returns once the future's task has ended.
FutureDone(t) == t.pc = "done"

AllCollected_First(c, n) == c >= 1

\* The list comprehension of line 108 ends when it has taken c results of n futures.
AllCollected(c, n) == c = n

\* Line 108: result() of the next future, in submission order.  It returns
\* the task's tuple, or re-raises the task's exception in the main thread.
CollectResult ==
    /\ mainpc = "collect"
    /\ LET t == task1[collected + 1] IN
       /\ FutureDone(t)
       /\ IF t.raised
          THEN /\ mainpc' = "abort_creates"
               /\ UNCHANGED <<collected, results>>
          ELSE /\ results' = Append(results, t.ret)
               /\ collected' = collected + 1
               /\ mainpc' = IF AllCollected(collected + 1, nrows)
                            THEN "submit_configure" ELSE "collect"
    /\ UNCHANGED <<inputs, task1, task2>>

\* The exception leaves the first with block: the executor's shutdown waits
\* for every submitted task, then add_machines_from_csv ends with the error.
AbortCreates ==
    /\ mainpc = "abort_creates"
    /\ \A m \in Rows : task1[m].pc = "done"
    /\ mainpc' = "error"
    /\ UNCHANGED <<inputs, collected, results, task1, task2>>

\* Lines 110-111: executor.map submits one configure_and_deploy task per
\* element of results, with the element's fields as arguments.
SubmitConfigure ==
    /\ mainpc = "submit_configure"
    /\ task2' = [m \in Rows |->
                    IF m <= Len(results)
                    THEN [task2[m] EXCEPT !.pc = "queued",
                                          !.hostname = results[m][1],
                                          !.system_id = results[m][2]]
                    ELSE task2[m]]
    /\ mainpc' = "join_configure"
    /\ UNCHANGED <<inputs, collected, results, task1>>

JoinConfigure_NoWait ==
    /\ mainpc = "join_configure"
    /\ mainpc' = "returned"
    /\ UNCHANGED <<inputs, collected, results, task1, task2>>

\* Leaving the second with block waits for every submitted task; the
\* iterator executor.map returned is dropped, so no task's exception is
\* re-raised.  add_machines_from_csv returns.
JoinConfigure ==
    /\ mainpc = "join_configure"
    /\ \A m \in Rows : task2[m].pc \in {"unsubmitted", "done"}
    /\ mainpc' = "returned"
    /\ UNCHANGED <<inputs, collected, results, task1, task2>>

\* -------------------------------------------------------- get_machine_status
Raises == "<raise>"

\* What get_machine_status returns when the read command answers resp
\* (lines 10-14): "Unknown" on a non-zero exit or a missing status_name;
\* json.loads, outside any try block, raises on output that is no JSON object.
GetMachineStatus(resp) ==
    CASE resp = "exit1" -> "Unknown"
      [] resp = "no_status_name" -> "Unknown"
      [] resp = "malformed" -> Raises
      [] OTHER -> resp

\* ----------------------------------------------------- configure_and_deploy
MissingSystemId_NoneOnly(system_id) == system_id = NoneVal

\* Line 84: `not system_id` holds of None and of the empty string.
MissingSystemId(system_id) == system_id \in {NoneVal, ""}

CloudInitGiven_NotNone(path) == path # NoneVal

\* Line 89: `if cloud_init_file` fails for None and for the empty string.
CloudInitGiven(path) == path \notin {NoneVal, ""}

ReadyBranch_Always(val) == TRUE

\* Line 88: the if statement tests what wait_for_status returned.
ReadyBranch(val) == val

\* Lines 88-99: what configure_and_deploy does with the value val that
\* wait_for_status returned for the wait in progress.
AfterWait(t, val) ==
    LET r == [t EXCEPT !.returned[t.expected_status] = IF val THEN "True" ELSE "False"] IN
    IF t.expected_status = "Ready"
    THEN IF ReadyBranch(val)
         THEN [r EXCEPT !.pc = IF CloudInitGiven(cloud_init_file)
                               THEN "apply_cloud_init" ELSE "deploy_machine"]
         ELSE [r EXCEPT !.pc = "done", !.outcome = "SkippedNotReady"]
    ELSE [r EXCEPT !.pc = "done", !.outcome = IF val THEN "Deployed" ELSE "NotDeployed"]

\* ------------------------------------------------------------ wait_for_status
LoopCond_Inclusive(elapsed_time, t) == elapsed_time <= t

\* Line 18: the loop runs while elapsed_time < timeout.
LoopCond(elapsed_time, t) == elapsed_time < t

StatusMatches_AnyKnown(status, expected_status) == status # "Unknown"

\* Line 21: the comparison that ends the wait.
StatusMatches(status, expected_status) == status = expected_status

\* Line 18 reached with elapsed_time = e: another read, or lines 25-26.
WhileHead(t, e) ==
    IF LoopCond(e, timeout)
    THEN [t EXCEPT !.elapsed_time = e, !.pc = "get_machine_status"]
    ELSE AfterWait([t EXCEPT !.elapsed_time = e], FALSE)

\* A call wait_for_status(..., expected, ...): line 17, then line 18.
EnterWait(t, expected) == WhileHead([t EXCEPT !.expected_status = expected], 0)

\* A worker of the second pool takes the task of results[m].
StartConfigure(m) ==
    /\ NextQueued(task2, m)
    /\ WorkerFree(Cardinality(Executing(task2)))
    /\ task2' = [task2 EXCEPT ![m].pc = "entry"]
    /\ UNCHANGED <<inputs, mainpc, collected, results, task1>>

\* Lines 84-88: skip a result without system id, else wait for Ready.
CheckSystemId(m) ==
    /\ task2[m].pc = "entry"
    /\ task2' = [task2 EXCEPT ![m] =
                    IF MissingSystemId(@.system_id)
                    THEN [@ EXCEPT !.pc = "done", !.outcome = "SkippedNoId"]
                    ELSE EnterWait(@, "Ready")]
    /\ UNCHANGED <<inputs, mainpc, collected, results, task1>>

\* Lines 19-22: one status read and its comparison.  An exception of
\* get_machine_status leaves wait_for_status and configure_and_deploy and
\* ends the task; nobody asks the task's future for it.
QueryStatus(m) ==
    /\ task2[m].pc = "get_machine_status"
    /\ \E resp \in ReadResponses :
         LET t == task2[m]
             k == t.expected_status
             s == GetMachineStatus(resp)
             q == [t EXCEPT !.queries[k] = @ + 1,
                            !.hit[k] = IF @ = 0 /\ resp = k THEN t.queries[k] + 1 ELSE @,
                            !.late = @ \/ t.elapsed_time >= timeout]
         IN task2' = [task2 EXCEPT ![m] =
                IF s = Raises
                THEN [q EXCEPT !.pc = "done", !.outcome = "Raised"]
                ELSE IF StatusMatches(s, k)
                     THEN AfterWait([q EXCEPT !.status = s], TRUE)
                     ELSE [q EXCEPT !.status = s, !.pc = "sleep"]]
    /\ UNCHANGED <<inputs, mainpc, collected, results, task1>>

\* Lines 23-24, then the loop test of line 18.
Sleep(m) ==
    /\ task2[m].pc = "sleep"
    /\ task2' = [task2 EXCEPT ![m] =
                    WhileHead([@ EXCEPT !.sleeps[@.expected_status] = @ + 1],
                              @.elapsed_time + interval)]
    /\ UNCHANGED <<inputs, mainpc, collected, results, task1>>

ApplyCloudInit_Uncaught(m) ==
    /\ task2[m].pc = "apply_cloud_init"
    /\ \E res \in {"unreadable", "exit1", "ok"} :
         task2' = [task2 EXCEPT ![m] =
                      [@ EXCEPT !.pushes = @ + 1,
                                !.updates = IF res = "unreadable" THEN @ ELSE @ + 1,
                                !.push_failed = (res # "ok"),
                                !.pc = IF res = "ok" THEN "deploy_machine" ELSE "done",
                                !.outcome = IF res = "ok" THEN @ ELSE "Raised"]]
    /\ UNCHANGED <<inputs, mainpc, collected, results, task1>>

\* apply_cloud_init (lines 62-73): the file is read, then the update command
\* runs; a failure of either is caught and printed.
ApplyCloudInit(m) ==
    /\ task2[m].pc = "apply_cloud_init"
    /\ \E res \in {"unreadable", "exit1", "ok"} :
         task2' = [task2 EXCEPT ![m] =
                      [@ EXCEPT !.pushes = @ + 1,
                                !.updates = IF res = "unreadable" THEN @ ELSE @ + 1,
                                !.push_failed = (res # "ok"),
                                !.pc = "deploy_machine"]]
    /\ UNCHANGED <<inputs, mainpc, collected, results, task1>>

DeployMachine_Uncaught(m) ==
    /\ task2[m].pc = "deploy_machine"
    /\ \E ok \in BOOLEAN :
         task2' = [task2 EXCEPT ![m] =
                      IF ok
                      THEN EnterWait([@ EXCEPT !.deploys = @ + 1], "Deployed")
                      ELSE [@ EXCEPT !.deploys = @ + 1, !.deploy_failed = TRUE,
                                     !.pc = "done", !.outcome = "Raised"]]
    /\ UNCHANGED <<inputs, mainpc, collected, results, task1>>

\* deploy_machine (lines 75-81), a failure caught and printed, then the call
\* of wait_for_status for Deployed (line 94).
DeployMachine(m) ==
    /\ task2[m].pc = "deploy_machine"
    /\ \E ok \in BOOLEAN :
         task2' = [task2 EXCEPT ![m] =
                      EnterWait([@ EXCEPT !.deploys = @ + 1, !.deploy_failed = ~ok],
                                "Deployed")]
    /\ UNCHANGED <<inputs, mainpc, collected, results, task1>>

\* ------------------------------------------------------------ specifications
Next ==
    \/ SubmitCreates
    \/ \E m \in Rows : StartCreate(m)
    \/ \E m \in Rows : RunCreate(m)
    \/ CollectResult
    \/ AbortCreates
    \/ SubmitConfigure
    \/ \E m \in Rows : StartConfigure(m)
    \/ \E m \in Rows : CheckSystemId(m)
    \/ \E m \in Rows : QueryStatus(m)
    \/ \E m \in Rows : Sleep(m)
    \/ \E m \in Rows : ApplyCloudInit(m)
    \/ \E m \in Rows : DeployMachine(m)
    \/ JoinConfigure

\* A batch run: the whole program on small inventories, each wait one
\* interval long.
Init == InitWith(0..MaxRows, {1}, {1}, MaxRows)

Spec == Init /\ [][Next]_vars

\* One machine, with the arguments of wait_for_status drawn widely.
InitWait == InitWith({1}, 0..MaxTimeout, 1..MaxInterval, 1)

SpecWait == InitWait /\ [][Next]_vars

\* More rows than a pool has workers; at most one create request succeeds.
InitPool == InitWith((MaxWorkers + 1)..(MaxWorkers + PoolExtra), {1}, {1}, 1)

SpecPool == InitPool /\ [][Next]_vars

\* ==================================================================== claims
\* A phase-2 task has started once a worker has taken it from the queue.
Started2(m) == task2[m].pc \notin {"unsubmitted", "queued"}

\* The status reads, pushes and deploy triggers issued for machine m.
Untouched(m) ==
    /\ \A k \in WaitKinds : task2[m].queries[k] = 0
    /\ task2[m].pushes = 0
    /\ task2[m].updates = 0
    /\ task2[m].deploys = 0

\* C1 (barrier): no configure_and_deploy task starts for any machine until
\* every create_machine task of every row has completed, whichever of them
\* failed.
C1_Barrier ==
    \A m \in Rows : Started2(m) => \A k \in Rows : task1[k].pc = "done"

\* A phase-2 task has started in a batch where one create failed and another
\* succeeded.
C1_Witness ==
    \E m, j, k \in Rows :
        /\ Started2(m)
        /\ task1[j].said_error
        /\ ~task1[k].said_error /\ task1[k].said_added

\* C2: a machine whose registration result has an absent or empty system id
\* is skipped in phase 2: the skip is reported and no status read, no
\* configuration push and no deploy trigger is ever issued for it.
C2_SkippedWithoutSystemId ==
    \A m \in Rows :
        (m <= Len(results) /\ results[m][2] \in {NoneVal, ""}) =>
            /\ Untouched(m)
            /\ task2[m].pc \in {"unsubmitted", "queued", "entry", "done"}
            /\ task2[m].pc = "done" => task2[m].outcome = "SkippedNoId"

\* A machine registered with an empty system id has been skipped while a
\* sibling with a system id is being polled.
C2_Witness ==
    \E m, j \in Rows :
        /\ m <= Len(results) /\ results[m][2] = ""
        /\ task2[m].pc = "done" /\ task2[m].outcome = "SkippedNoId"
        /\ task2[j].queries["Ready"] > 0

\* C3: if the create command succeeds (create_machine reports the host as
\* successfully added) the returned result carries a non-empty system id; if
\* it fails, the result carries an empty system id and empty credentials and
\* the row takes no part in phase-2 execution.
C3_SuccessfulCreateHasSystemId ==
    \A m \in Rows :
        (task1[m].pc = "done" /\ ~task1[m].raised) =>
            IF task1[m].said_added
            THEN task1[m].ret[2] \notin {NoneVal, ""}
            ELSE /\ task1[m].ret[2] = NoneVal
                 /\ task1[m].ret[3] = NoneVal
                 /\ Untouched(m)

\* The call of wait_for_status for status k made by machine m's task has
\* ended, by a return or by an exception.
WaitEnded(m, k) ==
    \/ task2[m].returned[k] # "none"
    \/ task2[m].outcome = "Raised" /\ task2[m].expected_status = k

\* C4: wait_for_status returns True if and only if one of the first
\* timeout/interval status queries returns the expected status; otherwise it
\* returns False, and it issues no status query once the elapsed time has
\* reached the timeout.
C4_TrueIffExpectedWithinBudget ==
    \A m \in Rows : \A k \in WaitKinds :
        /\ ~task2[m].late
        /\ WaitEnded(m, k) =>
              /\ task2[m].returned[k] = "True" <=>
                    (task2[m].hit[k] >= 1 /\ task2[m].hit[k] * interval <= timeout)
              /\ task2[m].returned[k] # "True" => task2[m].returned[k] = "False"

\* C5: when no status query returns the expected status, wait_for_status
\* makes exactly timeout/interval queries, each followed by one sleep, then
\* returns False; when that happens in the wait for Ready, no deployment is
\* attempted.
C5_ExactPollCountOnTimeout ==
    \A m \in Rows : \A k \in WaitKinds :
        (WaitEnded(m, k) /\ task2[m].hit[k] = 0) =>
            /\ task2[m].queries[k] * interval = timeout
            /\ task2[m].sleeps[k] = task2[m].queries[k]
            /\ task2[m].returned[k] = "False"
            /\ k = "Ready" => task2[m].deploys = 0

\* C6: a machine for which no status read of the wait for Ready answered
\* Ready is never passed to apply_cloud_init or deploy_machine, and no poll
\* for Deployed is made for it.
C6_NotReadyNeverDeployed ==
    \A m \in Rows :
        task2[m].hit["Ready"] = 0 =>
            /\ task2[m].pushes = 0
            /\ task2[m].updates = 0
            /\ task2[m].deploys = 0
            /\ task2[m].queries["Deployed"] = 0
            /\ task2[m].pc \notin {"apply_cloud_init", "deploy_machine"}

\* A machine polled several times without ever reporting Ready has been
\* skipped.
C6_Witness ==
    \E m \in Rows :
        /\ task2[m].outcome = "SkippedNotReady"
        /\ task2[m].queries["Ready"] >= 2
        /\ task2[m].hit["Ready"] = 0

\* C7: with an empty or absent cloud-init path the configuration push is
\* never invoked for any machine, and every machine that reported Ready in
\* its wait is handed to the deploy trigger.
C7_NoCloudInitStillDeploys ==
    cloud_init_file \in {NoneVal, ""} =>
        \A m \in Rows :
            /\ task2[m].pushes = 0
            /\ task2[m].updates = 0
            /\ task2[m].pc # "apply_cloud_init"
            /\ task2[m].hit["Ready"] >= 1 =>
                  \/ task2[m].pc = "deploy_machine" /\ task2[m].deploys = 0
                  \/ task2[m].deploys = 1

\* With an empty cloud-init path a machine reported Ready and the deploy
\* command was issued for it, without any push.
C7_Witness ==
    /\ cloud_init_file = ""
    /\ \E m \in Rows :
          /\ task2[m].hit["Ready"] >= 1
          /\ task2[m].deploys = 1
          /\ task2[m].pushes = 0

\* C8: get_machine_status never propagates an error: whatever the read
\* command answers, no exception leaves it, so no wait_for_status loop is
\* ever ended by one.
C8_StatusReadNeverRaises ==
    \A m \in Rows : task2[m].outcome # "Raised"

\* The steps of machine j's tasks.
TaskStep1(j) == RunCreate(j)

TaskStep2(j) ==
    \/ CheckSystemId(j)
    \/ QueryStatus(j)
    \/ Sleep(j)
    \/ ApplyCloudInit(j)
    \/ DeployMachine(j)

\* C9: per-machine errors never cross task boundaries.  With a well-formed
\* CSV no failure of a row's commands reaches the main thread or ends the
\* batch; a step of one task changes no other task; and a task that is
\* executing can always take its next step, whatever its siblings met.
C9_ErrorsStayInTheirTask ==
    /\ [](header_ok =>
            /\ mainpc \notin {"abort_creates", "error"}
            /\ \A m \in Rows : ~task1[m].raised)
    /\ [](\A j \in Rows :
            /\ task1[j].pc = "running" => ENABLED TaskStep1(j)
            /\ task2[j].pc \notin {"unsubmitted", "queued", "done"} => ENABLED TaskStep2(j))
    /\ [][mainpc' = mainpc =>
            \A i, j \in Rows :
                (i # j /\ (task1[i]' # task1[i] \/ task2[i]' # task2[i])) =>
                    (task1[j]' = task1[j] /\ task2[j]' = task2[j])]_vars

\* The run has returned with one machine's task ended by an exception,
\* another's create failed, and a sibling deployed.
C9_Witness ==
    /\ mainpc = "returned"
    /\ \E i, j \in Rows :
          /\ i # j
          /\ task2[i].outcome \in {"Raised", "SkippedNotReady", "SkippedNoId"}
          /\ task1[i].said_error \/ task2[i].outcome = "Raised"
          /\ task2[j].outcome = "Deployed"

\* C10: at most 5 create_machine tasks execute concurrently in phase 1 and at
\* most 5 configure_and_deploy tasks in phase 2, for any number of rows.
C10_AtMostFiveConcurrent ==
    /\ Cardinality(Executing(task1)) <= 5
    /\ Cardinality(Executing(task2)) <= 5

\* Five phase-2 tasks are executing while a sixth waits in the queue.
C10_Witness ==
    /\ Cardinality(Executing(task2)) = 5
    /\ \E m \in Rows : task2[m].pc = "queued"

\* Five phase-1 tasks are executing while a sixth waits in the queue.
C10_WitnessCreate ==
    /\ Cardinality(Executing(task1)) = 5
    /\ \E m \in Rows : task1[m].pc = "queued"

\* C11: once the inventory has been read the run always ends normally:
\* add_machines_from_csv never terminates with an error.
C11_AlwaysEndsNormally ==
    mainpc \notin {"abort_creates", "error"}

\* C11 as amended: with a CSV header that names every column create_machine
\* reads, no combination of per-machine outcomes ends the run with an
\* error, and the run can always go on until it has returned.
C11_EndsNormallyWithFullHeader ==
    header_ok =>
        /\ mainpc \notin {"abort_creates", "error"}
        /\ mainpc = "returned" \/ ENABLED Next

\* The run has returned although one row's create failed and the other
\* machine's push and deploy failed, or its task ended on a failed wait or
\* an exception.
C11_Witness ==
    /\ header_ok
    /\ mainpc = "returned"
    /\ \E i, j \in Rows :
          /\ task1[i].said_error
          /\ task2[j].push_failed
          /\ task2[j].deploy_failed
          /\ task2[j].outcome \in {"NotDeployed", "Raised"}

\* The elapsed time a machine's pollers have accounted over its phase-2
\* sequence: every sleep adds one interval (line 24).
AccountedTime(m) ==
    (task2[m].sleeps["Ready"] + task2[m].sleeps["Deployed"]) * interval

\* C12: each machine has a single budget equal to the poll timeout: the
\* elapsed time accounted for one machine over its whole phase-2 sequence
\* never exceeds the timeout.
C12_SingleBudgetPerMachine ==
    \A m \in Rows : AccountedTime(m) <= timeout

\* C12 as amended: the budget is per call of wait_for_status.  In one call
\* the accounted time stays below timeout + interval, and a machine makes at
\* most the two calls, the second only after the first returned True.
C12_BudgetPerWait ==
    \A m \in Rows :
        /\ task2[m].elapsed_time < timeout + interval
        /\ \A k \in WaitKinds : task2[m].sleeps[k] * interval < timeout + interval
        /\ task2[m].sleeps["Deployed"] > 0 => task2[m].returned["Ready"] = "True"

\* A machine slept in both waits and its accounted time exceeds the timeout.
C12_Witness ==
    \E m \in Rows :
        /\ task2[m].sleeps["Ready"] > 0
        /\ task2[m].sleeps["Deployed"] > 0
        /\ AccountedTime(m) > timeout
        /\ task2[m].pc = "done"

\* C13: for a machine that reached Ready with a cloud-init path supplied, a
\* failure of the configuration push is caught and the deploy trigger is
\* still invoked afterwards.
C13_PushFailureStillDeploys ==
    \A m \in Rows :
        task2[m].push_failed =>
            /\ task2[m].hit["Ready"] >= 1 /\ CloudInitGiven(cloud_init_file)
            /\ \/ task2[m].pc = "deploy_machine" /\ task2[m].deploys = 0
               \/ task2[m].deploys = 1

\* The push failed for a machine and the deploy command was issued for it.
C13_Witness ==
    \E m \in Rows :
        /\ task2[m].push_failed
        /\ task2[m].pushes = 1
        /\ task2[m].deploys = 1

\* C14: for a machine that reached Ready, a failure of the deploy trigger is
\* caught and the wait for status Deployed is still performed for that
\* machine afterwards: wait_for_status is called for Deployed, and with a
\* positive timeout its first status read is issued.
C14_DeployFailureStillWaits ==
    \A m \in Rows :
        task2[m].deploy_failed =>
            /\ task2[m].hit["Ready"] >= 1
            /\ task2[m].deploys = 1
            /\ task2[m].expected_status = "Deployed"
            /\ \/ task2[m].pc \in {"get_machine_status", "sleep"}
               \/ WaitEnded(m, "Deployed")
            /\ timeout > 0 =>
                  \/ task2[m].queries["Deployed"] >= 1
                  \/ task2[m].pc = "get_machine_status"

\* The deploy trigger failed and the wait for Deployed then polled and ended.
C14_Witness ==
    \E m \in Rows :
        /\ task2[m].deploy_failed
        /\ task2[m].queries["Deployed"] >= 1
        /\ task2[m].returned["Deployed"] # "none"

\* The run has ended, by a return or by an error.
RunEnded == mainpc \in {"returned", "error"}

\* C15 (no retries): over a whole run, the create command is issued exactly
\* once per inventory row, and the update and deploy commands are each issued
\* at most once per machine, whether or not they fail; only the status read
\* is repeated.
C15_NoRetries ==
    \A m \in Rows :
        /\ task1[m].creates <= 1
        /\ task2[m].updates <= 1
        /\ task2[m].deploys <= 1
        /\ RunEnded => task1[m].creates = 1

\* C15 as amended: no command but the status read is ever issued twice for a
\* row; the create command is issued exactly once per row in every run whose
\* CSV header names all columns, and not at all when a column is missing.
C15_NoRetriesGivenHeader ==
    \A m \in Rows :
        /\ task1[m].creates <= 1
        /\ task2[m].pushes <= 1
        /\ task2[m].updates <= 1
        /\ task2[m].deploys <= 1
        /\ task1[m].pc = "done" => task1[m].creates = (IF header_ok THEN 1 ELSE 0)
        /\ RunEnded => task1[m].pc = "done"

\* A run has ended in which a machine was created once, its update and its
\* deploy both failed, and its status was read more than once in one wait.
C15_Witness ==
    /\ mainpc = "returned"
    /\ \E m \in Rows :
        /\ task1[m].creates = 1
        /\ task2[m].queries["Ready"] >= 2
        /\ task2[m].updates = 1 /\ task2[m].push_failed
        /\ task2[m].deploys = 1 /\ task2[m].deploy_failed

\* C16 (per-machine step order): for every machine, the create command
\* completes before any status read for it; a status read answered Ready
\* precedes the configuration push; the configuration push (when made)
\* precedes the deploy trigger; and the deploy trigger precedes every status
\* read of the wait for Deployed.
C16_StepOrder ==
    \A m \in Rows :
        /\ (\E k \in WaitKinds : task2[m].queries[k] > 0 \/ task2[m].pc = "get_machine_status") =>
              /\ task1[m].pc = "done"
              /\ task1[m].creates = 1
        /\ (task2[m].pushes > 0 \/ task2[m].pc = "apply_cloud_init") =>
              task2[m].hit["Ready"] >= 1
        /\ task2[m].pc = "apply_cloud_init" => task2[m].deploys = 0
        /\ (task2[m].deploys > 0 /\ CloudInitGiven(cloud_init_file)) =>
              task2[m].pushes = 1
        /\ task2[m].pc = "deploy_machine" =>
              /\ task2[m].deploys = 0
              /\ task2[m].queries["Deployed"] = 0
        /\ (task2[m].queries["Deployed"] > 0 \/ task2[m].expected_status = "Deployed") =>
              task2[m].deploys = 1

\* A machine has gone through all four steps: created, read Ready, pushed,
\* deploy triggered, and polled for Deployed.
C16_Witness ==
    \E m \in Rows :
        /\ task1[m].creates = 1
        /\ task2[m].hit["Ready"] >= 1
        /\ task2[m].pushes = 1
        /\ task2[m].deploys = 1
        /\ task2[m].queries["Deployed"] >= 1

\* The console lines that end configure_and_deploy (lines 85, 95, 97, 99).
ReportedOutcomes == {"SkippedNoId", "SkippedNotReady", "Deployed", "NotDeployed"}

\* C17: every machine's phase-2 sequence reaches exactly one reported
\* terminal outcome (skipped for missing system id, skipped because not
\* Ready, successfully deployed, or did not reach Deployed), for any
\* behaviour of the control plane: a task that has ended has printed one of
\* the four terminal lines, and the run returns only with every task so ended.
C17_EveryTaskEndsReported ==
    /\ \A m \in Rows :
          task2[m].pc = "done" <=> task2[m].outcome # "none"
    /\ \A m \in Rows :
          task2[m].pc = "done" => task2[m].outcome \in ReportedOutcomes
    /\ mainpc = "returned" =>
          \A m \in Rows : task2[m].outcome \in ReportedOutcomes

\* Machine i's task is suspended between two status checks (line 24).
Sleeping(i) == task2[i].pc = "sleep"

\* C18: a task sleeping in its poll loop blocks only itself: while any
\* machine's task is suspended between status checks, every other machine's
\* phase-2 task that has not ended can still take its next step, for any
\* number of machines in the batch.
C18_SleeperBlocksOnlyItself ==
    \A i, j \in Rows :
        (i # j /\ Sleeping(i) /\ task2[j].pc \notin {"unsubmitted", "done"}) =>
            ENABLED (StartConfigure(j) \/ TaskStep2(j))

\* C18 as amended: while a task sleeps, every other task that a worker has
\* taken can still take its next step; the sleeping task keeps its worker, so
\* the next task in the queue can start exactly when fewer than five tasks,
\* sleeping ones included, are executing, and no later queued task can start.
C18_SleeperHoldsOnlyItsWorker ==
    \A i, j \in Rows :
        (i # j /\ Sleeping(i)) =>
            /\ (Started2(j) /\ task2[j].pc # "done") => ENABLED TaskStep2(j)
            /\ NextQueued(task2, j) =>
                  (ENABLED StartConfigure(j) <=> Cardinality(Executing(task2)) < 5)
            /\ (task2[j].pc = "queued" /\ ~NextQueued(task2, j)) =>
                  ~ENABLED StartConfigure(j)

\* One task sleeps, a sibling that a worker has taken can step, and a sixth
\* task waits in the queue because five tasks hold the five workers.
C18_Witness ==
    \E i, j, k \in Rows :
        /\ Sleeping(i)
        /\ j # i /\ Started2(j) /\ task2[j].pc # "done" /\ ENABLED TaskStep2(j)
        /\ task2[k].pc = "queued" /\ ~ENABLED StartConfigure(k)
        /\ Cardinality(Executing(task2)) = 5

\* C19: add_machines_from_csv returns only after every phase-2 task has
\* terminated: leaving the second pool waits for all submitted tasks, so no
\* machine is still being polled or deployed when the run ends; a run that
\* ends with an error never submitted a phase-2 task.
C19_ReturnsAfterAllTasks ==
    /\ mainpc = "returned" => \A m \in Rows : task2[m].pc = "done"
    /\ mainpc = "error" => \A m \in Rows : task2[m].pc = "unsubmitted"

\* The run has returned after one machine was deployed and another's task
\* was ended by an exception that nobody collected.
C19_Witness ==
    /\ mainpc = "returned"
    /\ \E m, j \in Rows :
          /\ task2[m].outcome = "Deployed" /\ task2[m].queries["Deployed"] >= 1
          /\ task2[j].outcome = "Raised"

\* The system id the control plane returned for the create request of row h.
ReturnedId(h) ==
    CASE create_response[h] = "ok" -> "sid-" \o ToString(h)
      [] create_response[h] = "empty_system_id" -> ""
      [] OTHER -> NoneVal

====
